---- MODULE Spec2Model ----
(***************************************************************************)
(* A model of the edflib-rs writer: the EDFWriter orchestration layer      *)
(* (src/src/writer.rs) on top of the Edf session (src/src/base.rs), which   *)
(* forwards to the edflib codec engine through its C ABI.  The engine is    *)
(* external: it is modelled as a stub that hands out handles, records every *)
(* call it receives and answers each call with a status the environment     *)
(* chooses (negative = rejected).                                           *)
(***************************************************************************)
EXTENDS Integers, Sequences, FiniteSets, TLC

VARIABLES
    file_path,    \* EDFWriter.file_path / Edf.path: the file stem and, when it has one, the extension
    header,       \* EDFWriter.header.channels: per channel its sample_frequency
    frames_data,  \* the caller's Vec<Vec<Vec<f64>>> handed to write_multi_frames
    edf,          \* EDFWriter.edf : Option<Edf> (the Edf is its Inner.hdl)
    alive,        \* FALSE once the writer object has been dropped
    handles,      \* engine side: handles[h+1] is "open" or "closed" for each handle issued
    closeCalls,   \* engine side: closeCalls[h+1] = number of edfclose_file(h) calls received
    calls,        \* the engine calls issued by the most recent operation, in order
    last,         \* the most recent operation and what it returned
    arg,          \* the argument of the most recent operation, as passed by the caller
    lock,         \* Edf.inner: the caller holding the Mutex<Inner>, 0 when it is free
    pc            \* per concurrent caller of a shared Edf: where it is in its operation

vars == <<file_path, lock, pc, header, frames_data, edf, alive, handles, closeCalls, calls, last, arg>>

\* ------------------------------------------------------------------------
\* Bounds of the model
\* ------------------------------------------------------------------------
\* longest batch of frames the caller builds
MaxFrames == 2
\* number of handles the engine stub hands out in one behaviour
MaxOpens == 2
\* longest sample buffer handed to Edf::write_samples directly
MaxBuf == 4
\* largest samplefrequency handed to Edf::write_samples directly
MaxFreq == 2
\* number of edfclose_file calls one handle receives through Edf::finish directly
MaxCloses == 2
\* number of concurrent callers sharing one Edf
NumThreads == 2
\* longest batch of the runs of mismatching frames
MaxRun == 3

\* ------------------------------------------------------------------------
\* f64 samples.  Only equality is ever applied to a sample, so a sample is a
\* token; NaN is the IEEE-754 not-a-number, which compares unequal to itself.
\* ------------------------------------------------------------------------
NaN == "NaN"
SampleVals == {"1.0", "2.0", NaN}

\* f64's PartialEq (IEEE-754 ==); FEqBitwise is equality of the bit patterns instead
FEqBitwise(a, b) == a = b
FEq(a, b) == a # NaN /\ b # NaN /\ a = b

\* <[f64]>::contains(&x): some element e with e == x
Contains(s, x) == \E i \in 1..Len(s) : FEq(s[i], x)

HasNaN(s) == \E i \in 1..Len(s) : s[i] = NaN

Min(a, b) == IF a < b THEN a ELSE b

\* Option<Edf>
None == [some |-> FALSE, hdl |-> 0]
Some(h) == [some |-> TRUE, hdl |-> h]

\* ------------------------------------------------------------------------
\* The engine stub.  An operation numbers the engine calls it issues 1, 2, ...;
\* the environment picks failAt, the number of the call the engine rejects
\* (0: it accepts them all).  Every handler returns at the first rejection.
\* ------------------------------------------------------------------------
Status(k, failAt) == IF k = failAt THEN -1 ELSE 0

Call(fn, hdl, sig, buf, ret) == [fn |-> fn, hdl |-> hdl, sig |-> sig, buf |-> buf, ret |-> ret]

\* ------------------------------------------------------------------------
\* Edf (src/src/base.rs)
\* ------------------------------------------------------------------------
\* slice::chunks_mut(n): consecutive pieces of n elements, the last one shorter
\* when n does not divide the length
Chunks(s, n) ==
    [i \in 1..((Len(s) + n - 1) \div n) |-> SubSeq(s, (i - 1) * n + 1, Min(i * n, Len(s)))]

\* Edf::write_samples.  n0 engine calls were issued before it in this operation.
\* A samplefrequency of 0 makes the length check divide by zero, which panics.
write_samplesIgnoringStatus(hdl, samples, samplefrequency, n0, failAt) ==
    IF samplefrequency = 0
    THEN [res |-> "Panic", calls |-> <<>>]
    ELSE IF Len(samples) \div samplefrequency # 1
    THEN [res |-> "ShapeError", calls |-> <<>>]
    ELSE [res |-> "Ok",
          calls |-> [i \in 1..Len(Chunks(samples, samplefrequency)) |->
                      Call("edfwrite_physical_samples", hdl, -1,
                           Chunks(samples, samplefrequency)[i],
                           Status(n0 + i, failAt))]]
write_samples(hdl, samples, samplefrequency, n0, failAt) ==
    IF samplefrequency = 0
    THEN [res |-> "Panic", calls |-> <<>>]
    ELSE IF Len(samples) \div samplefrequency # 1
    THEN [res |-> "ShapeError", calls |-> <<>>]
    ELSE LET chunks == Chunks(samples, samplefrequency)
             bad == failAt - n0
             rejected == bad \in 1..Len(chunks)
             issued == IF rejected THEN bad ELSE Len(chunks)
         IN  [res |-> IF rejected THEN "WriteError" ELSE "Ok",
              calls |-> [i \in 1..issued |->
                          Call("edfwrite_physical_samples", hdl, -1, chunks[i],
                               Status(n0 + i, failAt))]]

\* Edf::write_annotation
Edf_write_annotation(hdl, n0, failAt) ==
    [res |-> IF Status(n0 + 1, failAt) < 0 THEN "AnnotationError" ELSE "Ok",
     calls |-> <<Call("edfwrite_annotation_latin1_hr", hdl, -1, <<>>, Status(n0 + 1, failAt))>>]

\* Edf::finish
Edf_finish(hdl, n0, failAt) ==
    [res |-> IF Status(n0 + 1, failAt) < 0 THEN "CloseError" ELSE "Ok",
     calls |-> <<Call("edfclose_file", hdl, -1, <<>>, Status(n0 + 1, failAt))>>]

\* std::time::Duration: whole seconds and the nanoseconds below one second
Duration(secs, nanos) == [secs |-> secs, nanos |-> nanos]

\* Duration::subsec_micros
subsec_micros(d) == d.nanos \div 1000

\* (secs as i64 * 100000 + micros as i64 / 100) as i32: the low 32 bits of the
\* 64-bit sum, read as two's complement.  The sum is formed in 16-bit limbs
\* (100000 = 65536 + 2 * 17232) so that no intermediate value leaves 32 bits.
TicksAsI32(secs, micros) ==
    LET sh == secs \div 65536
        sl == secs % 65536
        p  == sl * 17232
        lo_raw == 2 * (p % 65536) + micros \div 100
        lo == lo_raw % 65536
        hi == (sh * 34464 + sl + 2 * (p \div 65536) + lo_raw \div 65536) % 65536
    IN  IF hi >= 32768 THEN (hi - 65536) * 65536 + lo ELSE hi * 65536 + lo

\* Edf::set_recordingduration
set_recordingduration(hdl, duration, n0, failAt) ==
    LET duration_in_10_microseconds == TicksAsI32(duration.secs, subsec_micros(duration))
    IN  IF duration_in_10_microseconds < 100 \/ duration_in_10_microseconds > 6000000
        THEN [res |-> "RangeError", calls |-> <<>>]
        ELSE [res |-> IF Status(n0 + 1, failAt) < 0 THEN "ConfigError" ELSE "Ok",
              calls |-> <<Call("edf_set_datarecord_duration", hdl, -1,
                               <<duration_in_10_microseconds>>, Status(n0 + 1, failAt))>>]

\* ------------------------------------------------------------------------
\* EDFWriter (src/src/writer.rs)
\* ------------------------------------------------------------------------
\* the loop of write_sample_stream over the channels, from channel ch_idx on;
\* acc holds the engine calls of the channels before it
RECURSIVE WriteChannels(_, _, _, _, _, _, _)
WriteChannels(hdl, hdr, channel_samples, ch_idx, n0, acc, failAt) ==
    IF ch_idx > Len(channel_samples)
    THEN [res |-> "Ok", calls |-> acc]
    ELSE LET r == write_samples(hdl, channel_samples[ch_idx], hdr[ch_idx],
                                n0 + Len(acc), failAt)
         IN  IF r.res # "Ok"
             THEN [res |-> r.res, calls |-> acc \o r.calls]
             ELSE WriteChannels(hdl, hdr, channel_samples, ch_idx + 1, n0,
                                acc \o r.calls, failAt)

\* EDFWriter::write_sample_stream
write_sample_streamAnyCount(e, hdr, channel_samples, n0, failAt) ==
    IF ~e.some
    THEN [res |-> "NotOpenError", calls |-> <<>>]
    ELSE WriteChannels(e.hdl, hdr,
                       SubSeq(channel_samples, 1, Min(Len(channel_samples), Len(hdr))),
                       1, n0, <<>>, failAt)
write_sample_streamUnchecked(e, hdr, channel_samples, n0, failAt) ==
    IF Len(channel_samples) # Len(hdr)
    THEN [res |-> "ChannelCountError", calls |-> <<>>]
    ELSE WriteChannels(e.hdl, hdr, channel_samples, 1, n0, <<>>, failAt)
write_sample_stream(e, hdr, channel_samples, n0, failAt) ==
    IF ~e.some
    THEN [res |-> "NotOpenError", calls |-> <<>>]
    ELSE IF Len(channel_samples) # Len(hdr)
    THEN [res |-> "ChannelCountError", calls |-> <<>>]
    ELSE WriteChannels(e.hdl, hdr, channel_samples, 1, n0, <<>>, failAt)

\* the repair step of write_multi_frames for one frame: a frame whose channel
\* count differs from the previous frame's is replaced whole; otherwise each
\* channel that contains(&NAN) is replaced by the previous frame's channel
RepairNoFrameReplace(frame, previous_frame) ==
    [ch_idx \in 1..Len(frame) |->
        IF ch_idx <= Len(previous_frame) /\ Contains(frame[ch_idx], NaN)
        THEN previous_frame[ch_idx]
        ELSE frame[ch_idx]]
Repair(frame, previous_frame) ==
    IF Len(frame) # Len(previous_frame)
    THEN previous_frame
    ELSE [ch_idx \in 1..Len(frame) |->
            IF Contains(frame[ch_idx], NaN)
            THEN previous_frame[ch_idx]
            ELSE frame[ch_idx]]

\* the loop of write_multi_frames from frame frame_idx on; frames is the
\* caller's vector, which the repair overwrites in place
RECURSIVE FrameLoopRawReference(_, _, _, _, _, _, _)
FrameLoopRawReference(e, hdr, frames, frame_idx, previous_frame, acc, failAt) ==
    IF frame_idx > Len(frames)
    THEN [res |-> "Ok", calls |-> acc, frames |-> frames]
    ELSE LET frame == Repair(frames[frame_idx], previous_frame)
             repaired == [frames EXCEPT ![frame_idx] = frame]
             r == write_sample_stream(e, hdr, frame, Len(acc), failAt)
         IN  IF r.res # "Ok"
             THEN [res |-> r.res, calls |-> acc \o r.calls, frames |-> repaired]
             ELSE FrameLoopRawReference(e, hdr, repaired, frame_idx + 1,
                                        frames[frame_idx], acc \o r.calls, failAt)
RECURSIVE FrameLoop(_, _, _, _, _, _, _)
FrameLoop(e, hdr, frames, frame_idx, previous_frame, acc, failAt) ==
    IF frame_idx > Len(frames)
    THEN [res |-> "Ok", calls |-> acc, frames |-> frames]
    ELSE LET frame == Repair(frames[frame_idx], previous_frame)
             repaired == [frames EXCEPT ![frame_idx] = frame]
             r == write_sample_stream(e, hdr, frame, Len(acc), failAt)
         IN  IF r.res # "Ok"
             THEN [res |-> r.res, calls |-> acc \o r.calls, frames |-> repaired]
             ELSE FrameLoop(e, hdr, repaired, frame_idx + 1, frame,
                            acc \o r.calls, failAt)

\* EDFWriter::write_multi_frames
write_multi_framesFirstWellFormed(e, hdr, frames, failAt) ==
    IF Len(frames) = 0
    THEN [res |-> "Ok", calls |-> <<>>, frames |-> frames]
    ELSE LET good == {f \in 1..Len(frames) : Len(frames[f]) = Len(hdr)}
             first == IF good = {} THEN 1 ELSE CHOOSE f \in good : \A g \in good : f <= g
         IN  FrameLoop(e, hdr, frames, 1, frames[first], <<>>, failAt)
write_multi_framesOpenOnly(e, hdr, frames, failAt) ==
    IF ~e.some
    THEN [res |-> "NotOpenError", calls |-> <<>>, frames |-> frames]
    ELSE IF Len(frames) = 0
    THEN [res |-> "Ok", calls |-> <<>>, frames |-> frames]
    ELSE FrameLoop(e, hdr, frames, 1, frames[1], <<>>, failAt)
write_multi_frames(e, hdr, frames, failAt) ==
    IF Len(frames) = 0
    THEN [res |-> "Ok", calls |-> <<>>, frames |-> frames]
    ELSE FrameLoop(e, hdr, frames, 1, frames[1], <<>>, failAt)

\* the setters of setup_header in the order it calls them: the patient fields,
\* then the channels in index order (sig is the channel index, -1 for none)
PatientSetters ==
    << "edf_set_equipment", "edf_set_patientname", "edf_set_patientcode",
       "edf_set_sex", "edf_set_admincode", "edf_set_technician" >>

ChannelSetters ==
    << "edf_set_label", "edf_set_transducer", "edf_set_digital_maximum",
       "edf_set_digital_minimum", "edf_set_physical_maximum",
       "edf_set_physical_minimum", "edf_set_physical_dimension",
       "edf_set_samplefrequency" >>

SetterAtFieldMajor(hdr, k) ==
    IF k <= Len(PatientSetters)
    THEN [fn |-> PatientSetters[k], sig |-> -1]
    ELSE [fn |-> ChannelSetters[((k - Len(PatientSetters) - 1) \div Len(hdr)) + 1],
          sig |-> (k - Len(PatientSetters) - 1) % Len(hdr)]
SetterAt(hdr, k) ==
    IF k <= Len(PatientSetters)
    THEN [fn |-> PatientSetters[k], sig |-> -1]
    ELSE [fn |-> ChannelSetters[((k - Len(PatientSetters) - 1) % Len(ChannelSetters)) + 1],
          sig |-> (k - Len(PatientSetters) - 1) \div Len(ChannelSetters)]

NumSetters(hdr) == Len(PatientSetters) + Len(hdr) * Len(ChannelSetters)

\* EDFWriter::setup_header on the handle hdl; n0 engine calls precede it
setup_header(hdr, hdl, n0, failAt) ==
    LET bad == failAt - n0
        rejected == bad \in 1..NumSetters(hdr)
        issued == IF rejected THEN bad ELSE NumSetters(hdr)
    IN  [res |-> IF rejected THEN "ConfigError" ELSE "Ok",
         calls |-> [k \in 1..issued |->
                     Call(SetterAt(hdr, k).fn, hdl, SetterAt(hdr, k).sig, <<>>,
                          Status(n0 + k, failAt))]]

\* Path::extension: the part after the last dot of the file name, if any.  A
\* path is its file stem followed by its extension when it has one.
extension(path) ==
    IF Len(path) > 1
    THEN [some |-> TRUE, ext |-> path[Len(path)]]
    ELSE [some |-> FALSE, ext |-> ""]

\* Filetype::from(&str)
Filetype_fromDefaultBDF(ext) ==
    IF ext = "edf" THEN "EDF"
    ELSE IF ext = "bdf" THEN "BDF"
    ELSE "BDF"
Filetype_from(ext) ==
    IF ext = "edf" THEN "EDF"
    ELSE IF ext = "bdf" THEN "BDF"
    ELSE "EDF"

\* the match in open_file_writeonly from Filetype to the engine's filetype argument
FiletypeArg(filetype) ==
    IF filetype = "EDF" THEN "EDFLIB_FILETYPE_EDFPLUS" ELSE "EDFLIB_FILETYPE_BDFPLUS"

\* Edf::open_file_writeonly: path.extension().unwrap() panics for a path
\* without extension, before the lock is taken; otherwise the engine returns
\* the handle fresh, or a negative value when it rejects the call, and
\* Inner.hdl takes what it returned
open_file_writeonly(path, fresh, n0, failAt) ==
    IF ~extension(path).some
    THEN [res |-> "Panic", hdl |-> -1, calls |-> <<>>]
    ELSE LET filetype == Filetype_from(extension(path).ext)
             hdl == IF Status(n0 + 1, failAt) < 0 THEN -1 ELSE fresh
         IN  [res |-> IF hdl < 0 THEN "OpenError" ELSE "Ok",
              hdl |-> hdl,
              calls |-> <<Call("edfopen_file_writeonly", -1, -1,
                               <<FiletypeArg(filetype)>>, hdl)>>]

\* EDFWriter::open: self.edf is assigned only when both steps succeeded
openIgnoringOpenError(e, hdr, path, fresh, failAt) ==
    LET o == open_file_writeonly(path, fresh, 0, failAt)
        h == setup_header(hdr, o.hdl, Len(o.calls), failAt)
    IN  IF h.res # "Ok"
        THEN [res |-> h.res, calls |-> o.calls \o h.calls, edf |-> e]
        ELSE [res |-> o.res, calls |-> o.calls \o h.calls,
              edf |-> IF o.res = "Ok" THEN Some(o.hdl) ELSE e]
open(e, hdr, path, fresh, failAt) ==
    LET o == open_file_writeonly(path, fresh, 0, failAt)
        h == setup_header(hdr, o.hdl, Len(o.calls), failAt)
    IN  IF o.res # "Ok"
        THEN [res |-> o.res, calls |-> o.calls, edf |-> e]
        ELSE IF h.res # "Ok"
        THEN [res |-> h.res, calls |-> o.calls \o h.calls, edf |-> e]
        ELSE [res |-> "Ok", calls |-> o.calls \o h.calls, edf |-> Some(o.hdl)]

\* EDFWriter::write_annotation
write_annotationAnyState(e, failAt) ==
    Edf_write_annotation(e.hdl, 0, failAt)
write_annotation(e, failAt) ==
    IF e.some
    THEN Edf_write_annotation(e.hdl, 0, failAt)
    ELSE [res |-> "NotOpenError", calls |-> <<>>]

\* EDFWriter::finish: Option::take empties self.edf before the engine is asked
finishKeepsEdf(e, failAt) ==
    IF e.some
    THEN [res |-> Edf_finish(e.hdl, 0, failAt).res,
          calls |-> Edf_finish(e.hdl, 0, failAt).calls, edf |-> e]
    ELSE [res |-> "Ok", calls |-> <<>>, edf |-> e]
finish(e, failAt) ==
    IF e.some
    THEN [res |-> Edf_finish(e.hdl, 0, failAt).res,
          calls |-> Edf_finish(e.hdl, 0, failAt).calls, edf |-> None]
    ELSE [res |-> "Ok", calls |-> <<>>, edf |-> None]

\* ------------------------------------------------------------------------
\* The engine's bookkeeping of the calls an operation issued
\* ------------------------------------------------------------------------
Opened(cs) == {i \in 1..Len(cs) : cs[i].fn = "edfopen_file_writeonly" /\ cs[i].ret >= 0}

Closes(cs, h) == Cardinality({i \in 1..Len(cs) : cs[i].fn = "edfclose_file" /\ cs[i].hdl = h})

ClosesAccepted(cs, h) ==
    \E i \in 1..Len(cs) : cs[i].fn = "edfclose_file" /\ cs[i].hdl = h /\ cs[i].ret >= 0

EngineAfter(cs) ==
    LET grown == IF Opened(cs) # {} THEN Append(handles, "open") ELSE handles
    IN  [k \in 1..Len(grown) |-> IF ClosesAccepted(cs, k - 1) THEN "closed" ELSE grown[k]]

CloseCallsAfter(cs) ==
    LET grown == IF Opened(cs) # {} THEN Append(closeCalls, 0) ELSE closeCalls
    IN  [k \in 1..Len(grown) |-> grown[k] + Closes(cs, k - 1)]

\* the effect of one operation that returned r on the writer and the engine
Done(op, a, r) ==
    /\ last' = [op |-> op, res |-> r.res]
    /\ arg' = a
    /\ calls' = r.calls
    /\ handles' = EngineAfter(r.calls)
    /\ closeCalls' = CloseCallsAfter(r.calls)

\* the number of engine calls an operation issues when the engine accepts them all
Faults(r) == 0..Len(r.calls)

\* ------------------------------------------------------------------------
\* Actions of the writer
\* ------------------------------------------------------------------------
Open ==
    /\ alive
    /\ Len(handles) < MaxOpens
    /\ \E failAt \in Faults(open(edf, header, file_path, Len(handles), 0)) :
          LET r == open(edf, header, file_path, Len(handles), failAt)
          IN  /\ edf' = r.edf
              /\ Done("open", <<>>, r)
    /\ UNCHANGED <<file_path, lock, pc, header, frames_data, alive>>

WriteSampleStream ==
    /\ alive
    /\ \E i \in 1..Len(frames_data) :
       \E failAt \in Faults(write_sample_stream(edf, header, frames_data[i], 0, 0)) :
          Done("write_sample_stream", frames_data[i],
               write_sample_stream(edf, header, frames_data[i], 0, failAt))
    /\ UNCHANGED <<file_path, lock, pc, header, frames_data, edf, alive>>

WriteMultiFrames ==
    /\ alive
    /\ \E failAt \in Faults(write_multi_frames(edf, header, frames_data, 0)) :
          LET r == write_multi_frames(edf, header, frames_data, failAt)
          IN  /\ frames_data' = r.frames
              /\ Done("write_multi_frames", frames_data, r)
    /\ UNCHANGED <<file_path, lock, pc, header, edf, alive>>

WriteAnnotation ==
    /\ alive
    /\ \E failAt \in Faults(write_annotation(edf, 0)) :
          Done("write_annotation", <<>>, write_annotation(edf, failAt))
    /\ UNCHANGED <<file_path, lock, pc, header, frames_data, edf, alive>>

Finish ==
    /\ alive
    /\ \E failAt \in Faults(finish(edf, 0)) :
          LET r == finish(edf, failAt)
          IN  /\ edf' = r.edf
              /\ Done("finish", <<>>, r)
    /\ UNCHANGED <<file_path, lock, pc, header, frames_data, alive>>

\* the writer goes out of scope: neither EDFWriter nor Edf implements Drop, so
\* the fields are freed and the engine is not called
Drop ==
    /\ alive
    /\ alive' = FALSE
    /\ Done("drop", <<>>, [res |-> "Ok", calls |-> <<>>])
    /\ UNCHANGED <<file_path, lock, pc, header, frames_data, edf>>

\* ------------------------------------------------------------------------
\* Inputs
\* ------------------------------------------------------------------------
Freqs == {1, 2}
ChannelCounts == {1, 2}
Headers == UNION {[1..n -> Freqs] : n \in ChannelCounts}

\* per-channel sample vectors the caller supplies
ChanVecs == { <<"1.0">>, <<"2.0">>, <<NaN>>, <<"1.0", "2.0">> }
Frames == UNION {[1..n -> ChanVecs] : n \in ChannelCounts}
Batches(n) == UNION {[1..k -> Frames] : k \in 0..n}

\* the file the example program records to
GeneratorPath == <<"generator", "bdf">>

\* paths with the two known extensions, other extensions, and none
Paths ==
    { <<"rec", "edf">>, <<"rec", "bdf">>, <<"rec", "txt">>, <<"rec", "EDF">>,
      <<"rec", "BDF">>, <<"rec">> }

\* the Edf is used by one caller at a time
SingleCaller ==
    /\ lock = 0
    /\ pc = <<>>

InitWriter ==
    /\ file_path = GeneratorPath
    /\ SingleCaller
    /\ edf = None
    /\ alive = TRUE
    /\ handles = <<>>
    /\ closeCalls = <<>>
    /\ calls = <<>>
    /\ last = [op |-> "new", res |-> "Ok"]
    /\ arg = <<>>

\* the writer pipeline: EDFWriter::new(path, header) and an open() the engine
\* accepted, then the caller's batch
InitFrames ==
    /\ file_path = GeneratorPath
    /\ SingleCaller
    /\ header \in Headers
    /\ frames_data \in Batches(MaxFrames)
    /\ alive = TRUE
    /\ edf = open(None, header, file_path, 0, 0).edf
    /\ calls = open(None, header, file_path, 0, 0).calls
    /\ handles = <<"open">>
    /\ closeCalls = <<0>>
    /\ last = [op |-> "open", res |-> "Ok"]
    /\ arg = <<>>

NextFrames == WriteSampleStream \/ WriteMultiFrames

SpecFrames == InitFrames /\ [][NextFrames]_vars

\* longer batches of few frames: one and two channels, with samples that tell
\* the frames apart
RunFrames ==
    { << <<"1.0">> >>, << <<"1.0", "2.0">> >>,
      << <<"2.0">>, <<"1.0">> >>, << <<"2.0", "1.0">>, <<"2.0">> >> }
Runs == UNION {[1..k -> RunFrames] : k \in 0..MaxRun}

\* the opened writer of InitFrames given one of the longer batches
InitRuns ==
    /\ file_path = GeneratorPath
    /\ SingleCaller
    /\ header \in Headers
    /\ frames_data \in Runs
    /\ alive = TRUE
    /\ edf = open(None, header, file_path, 0, 0).edf
    /\ calls = open(None, header, file_path, 0, 0).calls
    /\ handles = <<"open">>
    /\ closeCalls = <<0>>
    /\ last = [op |-> "open", res |-> "Ok"]
    /\ arg = <<>>

\* the caller, after a batch that was written, builds the vector of its next
\* call (a short one)
NewBatch ==
    /\ last.op = "write_multi_frames"
    /\ last.res = "Ok"
    /\ Len(arg) >= 1
    /\ frames_data' \in {b \in Runs : Len(b) <= 2}
    /\ Done("new_batch", <<>>, [res |-> "Ok", calls |-> <<>>])
    /\ UNCHANGED <<file_path, lock, pc, header, edf, alive>>

NextRuns == WriteMultiFrames \/ NewBatch

SpecRuns == InitRuns /\ [][NextRuns]_vars

\* the batches of the life-cycle runs: no frame or one frame of clean channels
SingleFrames == UNION {[1..n -> {<<"1.0">>, <<"1.0", "2.0">>}] : n \in ChannelCounts}
SmallBatches == {<<>>} \cup {<<f>> : f \in SingleFrames}

\* the writer's life cycle: EDFWriter::new(path, header), then any operations
Init ==
    /\ header \in Headers
    /\ frames_data \in SmallBatches
    /\ InitWriter

Next == Open \/ WriteSampleStream \/ WriteMultiFrames \/ WriteAnnotation \/ Finish \/ Drop

Spec == Init /\ [][Next]_vars

\* ------------------------------------------------------------------------
\* The Edf session used directly, as the crate's unit tests do: Edf::new(path, n)
\* leaves Inner.hdl = 0 until open_file_writeonly stores what the engine returned.
\* Here edf holds that Edf, which the caller opens until the engine accepts once.
\* ------------------------------------------------------------------------
Buffers == UNION {[1..n -> SampleVals \ {NaN}] : n \in 0..MaxBuf}

Durations ==
    {Duration(s, n) : s \in {0, 1, 59, 60, 61, 42949, 42950},
                      n \in {0, 999999, 1000000, 9999999, 10000000, 999999999}}

EdfOpen ==
    /\ handles = <<>>
    /\ \E failAt \in 0..1 :
          LET r == open_file_writeonly(file_path, Len(handles), 0, failAt)
          IN  /\ edf' = IF r.res = "Panic" THEN edf ELSE Some(r.hdl)
              /\ Done("open_file_writeonly", <<>>, r)
    /\ UNCHANGED <<file_path, lock, pc, header, frames_data, alive>>

EdfWriteSamples ==
    /\ \E samples \in Buffers, samplefrequency \in 1..MaxFreq :
       \E failAt \in Faults(write_samples(edf.hdl, samples, samplefrequency, 0, 0)) :
          Done("write_samples", [samples |-> samples, samplefrequency |-> samplefrequency],
               write_samples(edf.hdl, samples, samplefrequency, 0, failAt))
    /\ UNCHANGED <<file_path, lock, pc, header, frames_data, edf, alive>>

EdfSetRecordingDuration ==
    /\ \E duration \in Durations :
       \E failAt \in Faults(set_recordingduration(edf.hdl, duration, 0, 0)) :
          Done("set_recordingduration", duration,
               set_recordingduration(edf.hdl, duration, 0, failAt))
    /\ UNCHANGED <<file_path, lock, pc, header, frames_data, edf, alive>>

EdfFinish ==
    /\ \A k \in 1..Len(closeCalls) : closeCalls[k] < MaxCloses
    /\ \E failAt \in 0..1 :
          Done("Edf_finish", <<>>, Edf_finish(edf.hdl, 0, failAt))
    /\ UNCHANGED <<file_path, lock, pc, header, frames_data, edf, alive>>

InitEdf ==
    /\ file_path \in Paths
    /\ SingleCaller
    /\ header = <<>>
    /\ frames_data = <<>>
    /\ alive = TRUE
    /\ edf = Some(0)
    /\ handles = <<>>
    /\ closeCalls = <<>>
    /\ calls = <<>>
    /\ last = [op |-> "Edf_new", res |-> "Ok"]
    /\ arg = <<>>

NextEdf == EdfOpen \/ EdfWriteSamples \/ EdfSetRecordingDuration \/ EdfFinish

SpecEdf == InitEdf /\ [][NextEdf]_vars

\* ------------------------------------------------------------------------
\* One Edf shared by concurrent callers (&Edf is Sync: its methods take &self
\* and the handle sits in Arc<Mutex<Inner>>).  Every method but
\* open_file_writeonly obtains the handle through get_hdl, whose MutexGuard
\* is dropped when get_hdl returns, and then calls the engine.
\* ------------------------------------------------------------------------
Threads == 1..NumThreads

\* the methods the callers invoke, each with one fixed valid argument
SharedOps == {"write_samples", "write_annotation", "set_recordingduration", "Edf_finish"}

Idle == [at |-> "idle", op |-> "none", hdl |-> -1]

\* what the method op does with the handle hdl it read
SharedCall(op, hdl, failAt) ==
    CASE op = "write_samples" -> write_samples(hdl, <<"1.0">>, 1, 0, failAt)
      [] op = "write_annotation" -> Edf_write_annotation(hdl, 0, failAt)
      [] op = "set_recordingduration" -> set_recordingduration(hdl, Duration(1, 0), 0, failAt)
      [] op = "Edf_finish" -> Edf_finish(hdl, 0, failAt)

\* the finish() calls under way
Finishing == {u \in Threads : pc[u].at # "idle" /\ pc[u].op = "Edf_finish"}

\* get_hdl: self.inner.lock() succeeds when no caller holds the mutex
get_hdl_lock(t) ==
    /\ pc[t].at = "idle"
    /\ lock = 0
    /\ \E op \in SharedOps :
          /\ op = "Edf_finish" =>
                \A k \in 1..Len(closeCalls) :
                    closeCalls[k] + Cardinality(Finishing) < MaxCloses
          /\ pc' = [pc EXCEPT ![t] = [at |-> "get_hdl", op |-> op, hdl |-> -1]]
    /\ lock' = t
    /\ UNCHANGED <<file_path, header, frames_data, edf, alive, handles, closeCalls,
                   calls, last, arg>>

\* get_hdl returns inner.hdl; the guard goes out of scope and the mutex is free
get_hdl_return(t) ==
    /\ pc[t].at = "get_hdl"
    /\ lock = t
    /\ pc' = [pc EXCEPT ![t] = [at |-> "call", op |-> pc[t].op, hdl |-> edf.hdl]]
    /\ lock' = 0
    /\ UNCHANGED <<file_path, header, frames_data, edf, alive, handles, closeCalls,
                   calls, last, arg>>

\* the engine function is entered with the handle that was read
engine_enter(t) ==
    /\ pc[t].at = "call"
    /\ pc' = [pc EXCEPT ![t].at = "engine"]
    /\ UNCHANGED <<file_path, lock, header, frames_data, edf, alive, handles,
                   closeCalls, calls, last, arg>>

\* the engine function returns its status and the method returns
engine_return(t) ==
    /\ pc[t].at = "engine"
    /\ \E failAt \in 0..1 :
          Done(pc[t].op, <<>>, SharedCall(pc[t].op, pc[t].hdl, failAt))
    /\ pc' = [pc EXCEPT ![t] = Idle]
    /\ UNCHANGED <<file_path, lock, header, frames_data, edf, alive>>

\* an Edf whose file the engine has opened, shared by the callers
InitShared ==
    /\ file_path = GeneratorPath
    /\ lock = 0
    /\ pc = [t \in Threads |-> Idle]
    /\ header = <<>>
    /\ frames_data = <<>>
    /\ alive = TRUE
    /\ edf = Some(0)
    /\ handles = <<"open">>
    /\ closeCalls = <<0>>
    /\ calls = open_file_writeonly(file_path, 0, 0, 0).calls
    /\ last = [op |-> "open_file_writeonly", res |-> "Ok"]
    /\ arg = <<>>

NextShared ==
    \E t \in Threads :
        get_hdl_lock(t) \/ get_hdl_return(t) \/ engine_enter(t) \/ engine_return(t)

SpecShared == InitShared /\ [][NextShared]_vars

\* ========================================================================
\* Properties
\* ========================================================================
WriteFn == "edfwrite_physical_samples"

\* the engine accepted every call of the most recent operation
AllAccepted(cs) == \A i \in 1..Len(cs) : cs[i].ret >= 0

\* the sample buffers the engine received, in order
Bufs(cs) == [i \in 1..Len(cs) |-> cs[i].buf]

OnlyWrites(cs) == \A i \in 1..Len(cs) : cs[i].fn = WriteFn /\ cs[i].hdl = edf.hdl

RECURSIVE Concat(_)
Concat(ss) == IF Len(ss) = 0 THEN <<>> ELSE Head(ss) \o Concat(Tail(ss))

\* a frame has the header's channel count and every channel exactly its
\* declared sample_frequency entries
MatchesHeader(frame) ==
    /\ Len(frame) = Len(header)
    /\ \A c \in 1..Len(frame) : Len(frame[c]) = header[c]

\* one record per channel of each frame, frame by frame, channel by channel
OnePerChannel(frames) == Concat([f \in 1..Len(frames) |-> frames[f]])

\* C1: on an Open writer, a batch whose every frame has the header's channel
\* count and whose every channel has exactly its declared sample count, with
\* the engine accepting, reaches the engine as exactly one record write per
\* channel per frame, in frame order and within a frame in channel order, each
\* carrying that channel's own samples; the call succeeds.
C1_OneWritePerChannelPerFrame ==
    ( /\ last.op = "write_multi_frames"
      /\ edf.some
      /\ \A f \in 1..Len(arg) : MatchesHeader(arg[f])
      /\ AllAccepted(calls) )
    => ( /\ last.res = "Ok"
         /\ OnlyWrites(calls)
         /\ Bufs(calls) = OnePerChannel(arg) )

C1_Witness ==
    /\ last.op = "write_multi_frames"
    /\ edf.some
    /\ Len(arg) = MaxFrames
    /\ Len(header) = 2
    /\ header[1] # header[2]
    /\ \A f \in 1..Len(arg) : MatchesHeader(arg[f])
    /\ HasNaN(arg[2][1]) /\ ~HasNaN(arg[1][1])
    /\ AllAccepted(calls)
    /\ last.res = "Ok"
    /\ Len(calls) = MaxFrames * 2

\* the frames the engine is claimed to receive: a frame after the first whose
\* channel count equals the previous written frame's has each channel holding
\* a not-a-number value replaced by the previous written frame's channel
ClaimedRepair(f) ==
    IF f > 1 /\ Len(arg[f]) = Len(frames_data[f - 1])
    THEN [c \in 1..Len(arg[f]) |->
            IF HasNaN(arg[f][c]) THEN frames_data[f - 1][c] ELSE arg[f][c]]
    ELSE frames_data[f]

FrameBufs(frame) == Concat([c \in 1..Len(frame) |-> Chunks(frame[c], header[c])])

\* C2: in write_multi_frames, for every frame after the first whose channel
\* count equals the previous accepted frame's, a channel containing a
\* not-a-number value is written as the previous accepted frame's samples for
\* that channel index, and a channel without one is written verbatim.
C2_NaNChannelReplaced ==
    (last.op = "write_multi_frames" /\ last.res = "Ok")
    => Bufs(calls) = Concat([f \in 1..Len(arg) |-> FrameBufs(ClaimedRepair(f))])

\* C3: for a batch [F0, F1] with F0 matching the header and F1 of a different
\* channel count, the engine receives nothing but F0's channels and then F0's
\* channels again (none of F1's data), and with the engine accepting it
\* receives all of them and the call succeeds.
C3_MismatchedFrameReplaced ==
    ( /\ last.op = "write_multi_frames"
      /\ edf.some
      /\ Len(arg) = 2
      /\ MatchesHeader(arg[1])
      /\ Len(arg[2]) # Len(arg[1]) )
    => LET expect == arg[1] \o arg[1]
       IN  /\ OnlyWrites(calls)
           /\ Len(calls) <= Len(expect)
           /\ \A i \in 1..Len(calls) : calls[i].buf = expect[i]
           /\ AllAccepted(calls) => (last.res = "Ok" /\ Len(calls) = Len(expect))

C3_Witness ==
    /\ last.op = "write_multi_frames"
    /\ edf.some
    /\ Len(arg) = 2
    /\ MatchesHeader(arg[1])
    /\ Len(arg[2]) # Len(arg[1])
    /\ \A c \in 1..Len(arg[2]) : \A d \in 1..Len(arg[1]) : arg[2][c] # arg[1][d]
    /\ AllAccepted(calls)
    /\ last.res = "Ok"
    /\ Bufs(calls) = arg[1] \o arg[1]
    /\ frames_data[2] = arg[1]

\* the Edf of the most recent operation holds a handle the engine has open
HandleOpen == edf.hdl + 1 \in 1..Len(handles) /\ handles[edf.hdl + 1] = "open"

\* C4: a sample buffer whose length is not a whole multiple of the sample
\* frequency makes write_samples return a shape error with no engine write.
C4_NonMultipleRejected ==
    ( /\ last.op = "write_samples"
      /\ Len(arg.samples) % arg.samplefrequency # 0 )
    => (last.res = "ShapeError" /\ calls = <<>>)

\* C5: for every k >= 1, write_samples on an open handle with a buffer of
\* exactly k * samplefrequency samples and an accepting engine succeeds with
\* exactly k engine writes, one per period-sized chunk in buffer order.
C5_WholePeriodsChunked ==
    ( /\ last.op = "write_samples"
      /\ HandleOpen
      /\ Len(arg.samples) >= arg.samplefrequency
      /\ Len(arg.samples) % arg.samplefrequency = 0
      /\ AllAccepted(calls) )
    => ( /\ last.res = "Ok"
         /\ Len(calls) = Len(arg.samples) \div arg.samplefrequency
         /\ \A i \in 1..Len(calls) :
               /\ calls[i].fn = WriteFn
               /\ calls[i].buf = SubSeq(arg.samples, (i - 1) * arg.samplefrequency + 1,
                                        i * arg.samplefrequency) )

NoCloseCalls == \A k \in 1..Len(closeCalls) : closeCalls[k] = 0

\* C6: a finish() that follows a finish() issues no engine close and returns
\* success, whether or not the engine accepted the first close; and over any
\* sequence of operations no handle receives more than one engine close.
C6_FinishIdempotent ==
    /\ [](\A k \in 1..Len(closeCalls) : closeCalls[k] <= 1)
    /\ [][(last.op = "finish" /\ last'.op = "finish")
            => (calls' = <<>> /\ last'.res = "Ok" /\ closeCalls' = closeCalls)]_vars

C6_Witness ==
    /\ last.op = "finish"
    /\ last.res = "Ok"
    /\ calls = <<>>
    /\ ~edf.some
    /\ \E k \in 1..Len(closeCalls) : closeCalls[k] = 1 /\ handles[k] = "open"

\* A writer has had no successful open() exactly when it holds no Edf and the
\* engine has received no close: a successful open() stores an Edf, and only
\* finish() removes it again, which always issues a close.
NeverOpened == ~edf.some /\ NoCloseCalls

\* C7: on a writer that has had no successful open(), write_sample_stream,
\* write_multi_frames with a non-empty batch and write_annotation each return
\* a not-open error and issue no engine call.
C7_NotOpenRejected ==
    ( /\ last.op \in {"write_sample_stream", "write_multi_frames", "write_annotation"}
      /\ NeverOpened
      /\ (last.op = "write_multi_frames" => Len(arg) > 0) )
    => (last.res = "NotOpenError" /\ calls = <<>>)

C7_Witness ==
    /\ last.op = "write_multi_frames"
    /\ Len(arg) > 0
    /\ NeverOpened
    /\ handles = <<"open">>
    /\ last.res = "NotOpenError"
    /\ calls = <<>>

\* C8: when open() obtained a handle from the engine and then failed because
\* a header setter was rejected, a following finish() invokes the engine
\* close for that handle.
C8_FinishReleasesAfterFailedSetup ==
    [][( /\ last.op = "open"
         /\ last.res = "ConfigError"
         /\ last'.op = "finish" )
       => \E i \in 1..Len(calls') :
             calls'[i].fn = "edfclose_file" /\ calls'[i].hdl = calls[1].ret]_vars

\* C9: when the writer is dropped while it holds an open handle, the engine
\* close is invoked for that handle exactly once.
C9_DropClosesHandle ==
    (last.op = "drop" /\ edf.some) => closeCalls[edf.hdl + 1] = 1

\* 0.001 s <= d <= 60 s
InClaimedRange(d) ==
    \/ d.secs = 0 /\ d.nanos >= 1000000
    \/ d.secs >= 1 /\ d.secs < 60
    \/ d.secs = 60 /\ d.nanos = 0

\* C10: for every recording duration d with 0.001 s <= d <= 60 s,
\* set_recordingduration with an accepting engine returns success.
C10_DurationInRangeAccepted ==
    ( /\ last.op = "set_recordingduration"
      /\ InClaimedRange(arg)
      /\ AllAccepted(calls) )
    => last.res = "Ok"

\* d < 0.001 s or d > 60 s
OutOfClaimedRange(d) ==
    \/ d.secs = 0 /\ d.nanos < 1000000
    \/ d.secs = 60 /\ d.nanos > 0
    \/ d.secs > 60

\* C11: for every duration d with d < 0.001 s or d > 60 s, however large,
\* set_recordingduration returns a configuration error and does not invoke
\* the engine.
C11_DurationOutOfRangeRejected ==
    ( /\ last.op = "set_recordingduration"
      /\ OutOfClaimedRange(arg) )
    => (last.res = "RangeError" /\ calls = <<>>)

\* C15: whenever write_sample_stream returns a channel-count or shape error
\* for a frame, no engine record write has been issued for any channel of
\* that frame.
C15_RejectedFrameWritesNothing ==
    ( /\ last.op = "write_sample_stream"
      /\ last.res \in {"ChannelCountError", "ShapeError"} )
    => calls = <<>>

\* C16: write_sample_stream on an open writer with a frame whose number of
\* channels differs from the header's returns the channel-count error and
\* issues no engine record write.
C16_ChannelCountMismatchRejected ==
    ( /\ last.op = "write_sample_stream"
      /\ edf.some
      /\ Len(arg) # Len(header) )
    => (last.res = "ChannelCountError" /\ calls = <<>>)

\* a frame with fewer channels than the header, whose first channel alone
\* would have been accepted, was rejected
C16_Witness ==
    /\ last.op = "write_sample_stream"
    /\ edf.some
    /\ Len(arg) < Len(header)
    /\ Len(arg[1]) \div header[1] = 1
    /\ last.res = "ChannelCountError"
    /\ calls = <<>>

\* C17: when the engine rejects a record write during write_multi_frames, the
\* call returns the write error at once: the rejected write is the last
\* engine call of the operation, and it is not issued again.
C17_RejectedWriteStopsBatch ==
    ( /\ last.op = "write_multi_frames"
      /\ \E i \in 1..Len(calls) : calls[i].ret < 0 )
    => /\ last.res = "WriteError"
       /\ \A i \in 1..Len(calls) : calls[i].ret < 0 <=> i = Len(calls)
       /\ OnlyWrites(calls)

\* the very first write of a well-shaped batch of two frames was rejected and
\* nothing followed it
C17_Witness ==
    /\ last.op = "write_multi_frames"
    /\ Len(arg) = 2
    /\ \A f \in 1..Len(arg) : MatchesHeader(arg[f])
    /\ Len(calls) = 1
    /\ calls[1].ret < 0
    /\ last.res = "WriteError"

\* C18: write_multi_frames with an empty batch returns success and issues no
\* engine call, whether the writer is unopened, open or finished.
C18_EmptyBatchIsNoOp ==
    ( /\ last.op = "write_multi_frames"
      /\ Len(arg) = 0 )
    => (last.res = "Ok" /\ calls = <<>>)

\* an empty batch was given to a writer that had been opened and finished
C18_Witness ==
    /\ last.op = "write_multi_frames"
    /\ arg = <<>>
    /\ ~edf.some
    /\ \E k \in 1..Len(handles) : handles[k] = "closed"
    /\ last.res = "Ok"
    /\ calls = <<>>

\* the per-channel setter order the specification states
ClaimedChannelOrder ==
    << "edf_set_label", "edf_set_transducer", "edf_set_digital_maximum",
       "edf_set_digital_minimum", "edf_set_physical_maximum",
       "edf_set_physical_minimum", "edf_set_physical_dimension",
       "edf_set_samplefrequency" >>

\* the setters of the patient and recording fields
ClaimedPatientSetters ==
    { "edf_set_equipment", "edf_set_patientname", "edf_set_patientcode",
      "edf_set_sex", "edf_set_admincode", "edf_set_technician" }

RecordFns == {"edfwrite_physical_samples", "edfwrite_annotation_latin1_hr"}

\* C12: in a successful open() the engine open call comes before every
\* setter, all patient setters come before any channel setter, the channels
\* are configured in index order, each with label, transducer, digital
\* maximum, digital minimum, physical maximum, physical minimum, physical
\* dimension, sample frequency in that order, every setter is applied to the
\* handle just opened, and no record write or annotation is issued before
\* the sequence is complete.
C12_OpenCallOrder ==
    /\ (last.op = "open" /\ last.res = "Ok") =>
          LET np == Cardinality(ClaimedPatientSetters)
              nc == Len(ClaimedChannelOrder)
          IN  /\ Len(calls) = 1 + np + nc * Len(header)
              /\ calls[1].fn = "edfopen_file_writeonly"
              /\ calls[1].ret >= 0
              /\ {calls[i].fn : i \in 2..(1 + np)} = ClaimedPatientSetters
              /\ \A i \in 2..(1 + np) : calls[i].sig = -1
              /\ \A c \in 0..(Len(header) - 1) : \A j \in 1..nc :
                    /\ calls[1 + np + nc * c + j].fn = ClaimedChannelOrder[j]
                    /\ calls[1 + np + nc * c + j].sig = c
              /\ \A i \in 2..Len(calls) : calls[i].hdl = calls[1].ret
              /\ edf = Some(calls[1].ret)
    /\ (last.op = "open" \/ NeverOpened) =>
          \A i \in 1..Len(calls) : calls[i].fn \notin RecordFns

\* a header of two channels was set up completely
C12_Witness ==
    /\ last.op = "open"
    /\ last.res = "Ok"
    /\ Len(header) = 2
    /\ Len(calls) = 23
    /\ calls[23].fn = "edf_set_samplefrequency"
    /\ calls[23].sig = 1

\* the most recent operation was an open() in which the engine rejected a setter
SetterRejected ==
    /\ last.op = "open"
    /\ \E i \in 2..Len(calls) : calls[i].ret < 0

WriterWriteOps == {"write_sample_stream", "write_multi_frames", "write_annotation"}

\* C13: if a header setter gets a negative status during open(), no later
\* setter is invoked and open() returns the configuration error; and the
\* writer is left not usable for writing: a write or annotation call that
\* follows issues no engine call.
C13_FailedSetupLeavesWriterUnusable ==
    /\ [](SetterRejected =>
            /\ last.res = "ConfigError"
            /\ \A i \in 1..Len(calls) : calls[i].ret < 0 <=> i = Len(calls))
    /\ [][(SetterRejected /\ last'.op \in WriterWriteOps) => calls' = <<>>]_vars

\* the most recent operation was an open() whose engine open call returned a
\* negative handle
EngineOpenRejected ==
    /\ last.op = "open"
    /\ Len(calls) >= 1
    /\ calls[1].ret < 0

\* C14: if the engine open returns a negative handle, open() returns the open
\* error and invokes no header setter (the open call is its only engine
\* call), and the writer stays as it was: an unopened writer remains
\* unopened, so that a following write or annotation fails as not open
\* without an engine call and a following finish() issues no engine close.
C14_RejectedOpenLeavesUnopened ==
    /\ [](EngineOpenRejected => (last.res = "OpenError" /\ Len(calls) = 1))
    /\ [][EngineOpenRejected' => (edf' = edf /\ handles' = handles)]_vars
    /\ [][(EngineOpenRejected /\ ~edf.some /\ last'.op \in WriterWriteOps) =>
            /\ calls' = <<>>
            /\ (last'.op = "write_multi_frames" /\ arg' = <<>>) \/ last'.res = "NotOpenError"]_vars
    /\ [][(EngineOpenRejected /\ ~edf.some /\ last'.op = "finish") =>
            (calls' = <<>> /\ last'.res = "Ok")]_vars

\* the engine refused to open the file of a writer that had never been opened
C14_Witness ==
    /\ EngineOpenRejected
    /\ last.res = "OpenError"
    /\ Len(calls) = 1
    /\ ~edf.some
    /\ handles = <<>>

\* C20: the container is selected from the path's extension: "edf" requests
\* EDF+, "bdf" requests BDF+, and a path with any other extension is opened
\* as EDF+ rather than failing.
C20_ContainerFromExtension ==
    ( /\ last.op = "open_file_writeonly"
      /\ extension(file_path).some )
    => /\ Len(calls) = 1
       /\ calls[1].fn = "edfopen_file_writeonly"
       /\ calls[1].buf = << IF extension(file_path).ext = "bdf"
                            THEN "EDFLIB_FILETYPE_BDFPLUS"
                            ELSE "EDFLIB_FILETYPE_EDFPLUS" >>
       /\ calls[1].ret >= 0 => (last.res = "Ok" /\ edf = Some(calls[1].ret))

\* a file with an extension other than the two tags was opened as EDF+
C20_Witness ==
    /\ last.op = "open_file_writeonly"
    /\ extension(file_path).some
    /\ extension(file_path).ext \notin {"edf", "bdf"}
    /\ last.res = "Ok"
    /\ calls[1].buf = <<"EDFLIB_FILETYPE_EDFPLUS">>

\* the callers whose engine call is in progress
InEngine == {t \in DOMAIN pc : pc[t].at = "engine"}

\* C19: when one Edf is shared by concurrent callers, the lock serializes the
\* engine calls on its handle: no two engine calls are in progress at the
\* same time, and no engine call is in progress on the handle after a
\* finish() has closed it.
C19_EngineCallsSerialized ==
    /\ Cardinality(InEngine) <= 1
    /\ \A t \in InEngine : handles[pc[t].hdl + 1] = "open"

\* the operations the specification says always return
ReturningOps ==
    {"open", "write_sample_stream", "write_multi_frames", "write_samples",
     "write_annotation", "set_recordingduration", "finish",
     "open_file_writeonly", "Edf_finish"}

\* C21: apart from the unimplemented setters, every operation ends by
\* returning success or an error value, for every input and in every state;
\* none halts the process with a panic.
C21_OperationsAlwaysReturn ==
    last.op \in ReturningOps => last.res # "Panic"

\* the batch is one frame the header accepts followed only by frames of a
\* different channel count
MismatchRun(frames) ==
    /\ Len(frames) >= 1
    /\ MatchesHeader(frames[1])
    /\ \A f \in 2..Len(frames) : Len(frames[f]) # Len(frames[1])

\* C22: the frame as written becomes the reference for the next frame: for a
\* batch whose first frame matches the header and whose later frames all have
\* a different channel count, the engine receives the first frame's channels
\* once per frame of the batch, whatever its length, the caller's batch ends
\* up holding the first frame everywhere, and the call returns success.
C22_RepairedFrameIsReference ==
    ( /\ last.op = "write_multi_frames"
      /\ edf.some
      /\ MismatchRun(arg)
      /\ AllAccepted(calls) )
    => /\ last.res = "Ok"
       /\ OnlyWrites(calls)
       /\ Bufs(calls) = OnePerChannel([f \in 1..Len(arg) |-> arg[1]])
       /\ frames_data = [f \in 1..Len(arg) |-> arg[1]]

\* two mismatching frames in a row followed the first frame, and the first
\* frame was written three times
C22_Witness ==
    /\ last.op = "write_multi_frames"
    /\ edf.some
    /\ Len(arg) = 3
    /\ MismatchRun(arg)
    /\ Len(arg[2]) = Len(arg[3])
    /\ AllAccepted(calls)
    /\ last.res = "Ok"
    /\ Bufs(calls) = arg[1] \o arg[1] \o arg[1]

\* the first frame of the batch has a channel count other than the header's
FirstFrameMismatch(frames) == Len(frames) >= 1 /\ Len(frames[1]) # Len(header)

\* C23: the first frame of a batch is never repaired for channel count: when
\* its channel count differs from the header's, write_multi_frames returns
\* the channel-count error with no engine record write and the batch
\* untouched, however well formed the later frames are; and the reference
\* frame of one call is not carried over: this is so also for the call that
\* follows a call which wrote its frames.
C23_FirstFrameNeverRepaired ==
    /\ []( ( /\ last.op = "write_multi_frames"
             /\ edf.some
             /\ FirstFrameMismatch(arg) )
           => ( /\ last.res = "ChannelCountError"
                /\ calls = <<>>
                /\ frames_data = arg ) )
    /\ [][ ( /\ last.op = "new_batch"
             /\ last'.op = "write_multi_frames"
             /\ FirstFrameMismatch(arg') )
           => ( /\ last'.res = "ChannelCountError"
                /\ calls' = <<>> ) ]_vars

\* a batch whose first frame has the wrong channel count and whose second
\* frame the header accepts was rejected without a write
C23_Witness ==
    /\ last.op = "write_multi_frames"
    /\ edf.some
    /\ Len(arg) = 2
    /\ FirstFrameMismatch(arg)
    /\ MatchesHeader(arg[2])
    /\ last.res = "ChannelCountError"
    /\ calls = <<>>
    /\ frames_data = arg

\* the handles the engine has open
OpenHandles == {k \in 1..Len(handles) : handles[k] = "open"}

RECURSIVE SeqSum(_)
SeqSum(s) == IF Len(s) = 0 THEN 0 ELSE Head(s) + SeqSum(Tail(s))

\* as after a sequence of open() and finish() calls that all succeeded so
\* far under the claimed discipline: the only handle the engine may have open
\* is the one the writer holds, and every other handle was closed once
Released ==
    /\ \A k \in OpenHandles : edf.some /\ edf.hdl = k - 1
    /\ \A k \in 1..Len(handles) : closeCalls[k] = IF handles[k] = "closed" THEN 1 ELSE 0

\* C24: over any sequence of open() and finish() calls in which every engine
\* call succeeds, open() on an already open writer included, the engine has
\* at most one handle open at any time, and when finish() has returned the
\* number of engine close calls equals the number of successful engine opens.
C24_AtMostOneHandleOpen ==
    [][ ( /\ Released
          /\ last'.op \in {"open", "finish"}
          /\ AllAccepted(calls') )
        => ( /\ Cardinality(OpenHandles') <= 1
             /\ last'.op = "finish" => SeqSum(closeCalls') = Len(handles') ) ]_vars

\* the engine has received a close call for the handle h
CloseInvoked(h) == h + 1 \in 1..Len(closeCalls) /\ closeCalls[h + 1] > 0

\* C25: in a single-threaded sequence of writer operations no engine call is
\* issued with a handle for which the engine close has been invoked before;
\* after finish() the writer holds no session and behaves as not open (its
\* writes and annotations fail without an engine call, a further finish()
\* issues none) until an open() succeeds.
C25_NoUseAfterClose ==
    /\ [][\A i \in 1..Len(calls') :
             calls'[i].hdl >= 0 => ~CloseInvoked(calls'[i].hdl)]_vars
    /\ [](last.op = "finish" => ~edf.some)
    /\ [][(~edf.some /\ last'.op \in WriterWriteOps) =>
            /\ calls' = <<>>
            /\ (last'.op = "write_multi_frames" /\ arg' = <<>>) \/ last'.res = "NotOpenError"]_vars
    /\ [][(~edf.some /\ last'.op = "finish") => calls' = <<>>]_vars
    /\ [][(~edf.some /\ edf'.some) => (last'.op = "open" /\ last'.res = "Ok")]_vars

\* an annotation was attempted on a writer whose handle had been closed by
\* finish(), and was refused without an engine call
C25_Witness ==
    /\ last.op = "write_annotation"
    /\ ~edf.some
    /\ \E k \in 1..Len(handles) : handles[k] = "closed" /\ closeCalls[k] = 1
    /\ last.res = "NotOpenError"
    /\ calls = <<>>

====
